---- MODULE Spec2Model ----
(***************************************************************************)
(* Billing-state reconciliation of ai-multilingual-blog: the Stripe        *)
(* webhook endpoint and the user-facing subscription actions of            *)
(* backend/src/controllers/subscription.controller.js, the verifier of     *)
(* backend/src/config/stripe.js and the subscription sub-schema of         *)
(* backend/src/models/user.model.js.                                       *)
(*                                                                         *)
(* A user document is modelled with the paths the controller reads and     *)
(* writes (stripeCustomerId, roles, subscription.subscriptionId, ...); the *)
(* enum validators and defaults are those of subscriptionSchema.           *)
(***************************************************************************)
EXTENDS Integers, FiniteSets, Sequences, TLC

(* ------------------------------ bounds --------------------------------- *)

\* Provider-reported event times (event.created) range over 1..MaxTime.
MaxTime == 2

(* ------------------------------ domains -------------------------------- *)

NULL == "null"

\* u1 is the account the requests are about; u2 is a second account whose
\* subscription no request names.
Users == {"u1", "u2"}

Times == 1 .. MaxTime

\* Subscription ids an event can carry: s1 (u1's, when u1 has one) and s9,
\* which no account holds.
EventSubIds == {"s1", "s9"}

EventCustomers == {"c1", "c9"}

\* current_period_end as the provider reports it, in seconds.
PeriodEnds == {1, 2}

\* Provider subscription statuses an event can carry; "paused" is a provider
\* status that the user schema's enum does not list.
ProviderStatuses == {"active", "trialing", "past_due", "canceled", "paused"}

\* Price ids an event can carry: one that is a value of the planId enum and
\* one provider price id that is not.
PriceIds == {"pro", "price_premium_yearly"}

\* subscriptionSchema.status enum
StatusEnum ==
    {"active", "past_due", "unpaid", "canceled", "incomplete",
     "incomplete_expired", "trialing"}

\* subscriptionSchema.planId enum
PlanEnum == {"free", "basic", "pro", "enterprise"}

\* config.stripe.webhookSecret
webhookSecret == "whsec"

(* ------------------------------ events --------------------------------- *)

\* The fields of event.data.object the handlers read, with event.type and
\* event.created (the provider's occurredAt). A field an object type does not
\* have is NULL. An event's identity (event.id) is the record itself.
\* The provider's customer of a subscription: the object's customer field.
CustomerOf(id) == IF id = "s1" THEN "c1" ELSE "c9"

\* A subscription is created without cancel_at_period_end; an update can
\* carry either value.
SubscriptionEvents ==
    {e \in
        {[f EXCEPT !.customer = CustomerOf(f.id)] : f \in
            [type : {"customer.subscription.created",
                     "customer.subscription.updated"},
             created : Times,
             id : EventSubIds,
             status : ProviderStatuses,
             current_period_end : PeriodEnds,
             cancel_at_period_end : BOOLEAN,
             price : PriceIds,
             customer : {NULL},
             subscription : {NULL},
             omits : {{}}]} :
        e.type = "customer.subscription.created" => ~e.cancel_at_period_end}

DeletedEvents ==
    {[e EXCEPT !.customer = CustomerOf(e.id)] : e \in
        [type : {"customer.subscription.deleted"},
         created : Times,
         id : EventSubIds,
         status : {"canceled"},
         current_period_end : {1},
         cancel_at_period_end : {FALSE},
         price : {"pro"},
         customer : {NULL},
         subscription : {NULL},
         omits : {{}}]}

CheckoutEvents ==
    [type : {"checkout.session.completed"},
     created : Times,
     id : {"cs"},
     status : {NULL},
     current_period_end : {0},
     cancel_at_period_end : {FALSE},
     price : {NULL},
     customer : EventCustomers,
     subscription : EventSubIds \cup {NULL},
     omits : {{}}]

InvoiceEvents ==
    [type : {"invoice.payment_succeeded", "invoice.payment_failed"},
     created : Times,
     id : {"in"},
     status : {NULL},
     current_period_end : {0},
     cancel_at_period_end : {FALSE},
     price : {NULL},
     customer : {NULL},
     subscription : EventSubIds \cup {NULL},
     omits : {{}}]

OtherEvents ==
    [type : {"charge.refunded"},
     created : Times,
     id : {"ch"},
     status : {NULL},
     current_period_end : {0},
     cancel_at_period_end : {FALSE},
     price : {NULL},
     customer : {NULL},
     subscription : {NULL},
     omits : {{}}]

\* The fields of a subscription object that an event can come without.
OptionalFields == {"current_period_end", "cancel_at_period_end"}

\* Subscription updates that come without some of these fields: omits names
\* the absent fields, whose value in the record is then not read.
OmittingEvents ==
    {[e EXCEPT !.omits = o,
               !.current_period_end =
                   IF "current_period_end" \in o THEN 0 ELSE @,
               !.cancel_at_period_end =
                   IF "cancel_at_period_end" \in o THEN FALSE ELSE @] :
        e \in {f \in SubscriptionEvents :
                  /\ f.type = "customer.subscription.updated"
                  /\ f.id = "s1"
                  /\ f.created = 1
                  /\ f.status \in {"active", "past_due"}
                  /\ f.price = "pro"
                  /\ f.current_period_end = 2
                  /\ f.cancel_at_period_end},
        o \in (SUBSET OptionalFields) \ {{}}}

Events ==
    SubscriptionEvents \cup DeletedEvents \cup CheckoutEvents
        \cup InvoiceEvents \cup OtherEvents \cup OmittingEvents

\* The event of a request that carries none (a user's action), and of a
\* request slot that holds no webhook event.
NoEvent ==
    [type |-> "none", created |-> 0, id |-> NULL, status |-> NULL,
     current_period_end |-> 0, cancel_at_period_end |-> FALSE,
     price |-> NULL, customer |-> NULL, subscription |-> NULL, omits |-> {}]

(* --------------------------- event codec ------------------------------- *)

\* A text on the wire is the JSON of an event, or a Stripe-Signature value
\* "t=..,v1=HMAC(key, t.text)" computed with some key over the JSON of an
\* event.
Json(e) == [kind |-> "json", event |-> e, key |-> NULL]

Sig(k, e) == [kind |-> "sig", event |-> e, key |-> k]

\* stripe.webhooks.constructEvent(payload, header, secret): the header must
\* be a signature, made with the secret, over exactly the payload text; the
\* event is the payload parsed as JSON. Anything else throws.
constructEvent(payload, header, secret) ==
    IF /\ header.kind = "sig"
       /\ header.key = secret
       /\ payload.kind = "json"
       /\ header.event = payload.event
    THEN [ok |-> TRUE, event |-> payload.event]
    ELSE [ok |-> FALSE, event |-> NULL]

constructEventFromPayload(payload, signature) ==
    constructEvent(payload, signature, webhookSecret)

(* --------------------------- user documents ---------------------------- *)

\* A Date is held as milliseconds since the epoch; 0 stands for a Date path
\* that is not set.
Date(ms) == ms

\* new Date(NaN), which is what new Date(undefined * 1000) gives: an Invalid
\* Date, which a Date path refuses to cast when the document is validated.
InvalidDate == -1

\* The user document as created by the schema: subscription defaults to {}
\* whose status defaults to 'active', planId to 'free', cancelAtPeriodEnd to
\* false; no customer id, no subscription id, no premium role.
NewUser ==
    [stripeCustomerId |-> NULL,
     roles |-> <<"user">>,
     subscription |->
        [subscriptionId |-> NULL,
         planId |-> "free",
         status |-> "active",
         currentPeriodEnd |-> Date(0),
         cancelAtPeriodEnd |-> FALSE]]

\* roles.includes(role)
includes(roles, role) == \E i \in 1 .. Len(roles) : roles[i] = role

\* roles.push(role)
push(roles, role) == Append(roles, role)

\* roles.filter((r) => r !== role)
filterOut(roles, role) ==
    LET keep(r) == r # role
    IN  SelectSeq(roles, keep)

\* The order in which the store returns documents to findOne.
UserOrder == <<"u1", "u2">>

firstMatch(matches) ==
    IF matches = {}
    THEN NULL
    ELSE UserOrder[CHOOSE i \in matches : \A j \in matches : i <= j]

\* User.findOne with a filter on a path the schema does not have: the
\* filter is dropped and the first document of the collection is returned.
findOneFilterDropped(us, id) ==
    firstMatch({i \in 1 .. Len(UserOrder) : us[UserOrder[i]] = us[UserOrder[i]]})

\* User.findOne({ 'subscription.subscriptionId': id })
findOneBySubscriptionId(us, id) ==
    firstMatch({i \in 1 .. Len(UserOrder) :
                  us[UserOrder[i]].subscription.subscriptionId = id})

\* User.findOne({ stripeCustomerId: customerId })
findOneByCustomerId(us, customerId) ==
    firstMatch({i \in 1 .. Len(UserOrder) :
                  us[UserOrder[i]].stripeCustomerId = customerId})

\* Mongoose validation on save: the enum validators of subscriptionSchema.
validates(doc) ==
    /\ doc.subscription.status \in StatusEnum
    /\ doc.subscription.planId \in PlanEnum
    /\ doc.subscription.currentPeriodEnd # InvalidDate

\* What doc.save() writes: the paths whose value differs from the value the
\* document was loaded with; every other path keeps what the store holds.
written(stored, loaded, doc) ==
    [stripeCustomerId |->
        IF doc.stripeCustomerId # loaded.stripeCustomerId
        THEN doc.stripeCustomerId ELSE stored.stripeCustomerId,
     roles |-> IF doc.roles # loaded.roles THEN doc.roles ELSE stored.roles,
     subscription |->
        [subscriptionId |->
            IF doc.subscription.subscriptionId # loaded.subscription.subscriptionId
            THEN doc.subscription.subscriptionId
            ELSE stored.subscription.subscriptionId,
         planId |->
            IF doc.subscription.planId # loaded.subscription.planId
            THEN doc.subscription.planId ELSE stored.subscription.planId,
         status |->
            IF doc.subscription.status # loaded.subscription.status
            THEN doc.subscription.status ELSE stored.subscription.status,
         currentPeriodEnd |->
            IF doc.subscription.currentPeriodEnd # loaded.subscription.currentPeriodEnd
            THEN doc.subscription.currentPeriodEnd
            ELSE stored.subscription.currentPeriodEnd,
         cancelAtPeriodEnd |->
            IF doc.subscription.cancelAtPeriodEnd # loaded.subscription.cancelAtPeriodEnd
            THEN doc.subscription.cancelAtPeriodEnd
            ELSE stored.subscription.cancelAtPeriodEnd]]

\* The outcome of one handler run: the store afterwards, the message passed
\* to logger.error ("" when none), the analytics event tracked ("" when
\* none) and the account whose document was saved (NULL when none).
Outcome(us, log, tracked, saved) ==
    [users |-> us, log |-> log, tracked |-> tracked, saved |-> saved]

\* await user.save() followed by the handler's trackEvent; a validation
\* error is thrown by save and lands in the handler's catch.
saveAndTrack(us, u, loaded, doc, tracked, errorLog) ==
    IF validates(doc)
    THEN Outcome([us EXCEPT ![u] = written(us[u], loaded, doc)], "", tracked, u)
    ELSE Outcome(us, errorLog, "", NULL)

(* ------------------------- webhook event handlers ----------------------- *)

\* new Date(subscription.current_period_end * 1000), line 360: an absent
\* field reads as undefined and the product is NaN.
periodEndOf(subscription) ==
    IF "current_period_end" \in subscription.omits
    THEN InvalidDate
    ELSE Date(subscription.current_period_end * 1000)

\* subscription.cancel_at_period_end, line 361: an absent field reads as
\* undefined; assigning undefined unsets the path, and the document then
\* reads the schema's default, false.
cancelAtPeriodEndOf(subscription) ==
    IF "cancel_at_period_end" \in subscription.omits
    THEN FALSE
    ELSE subscription.cancel_at_period_end

\* handleSubscriptionUpdated with the premium role pushed without the
\* includes test of line 371.
updatedDocumentPushesAlways(user, subscription) ==
    LET withFields ==
            [user EXCEPT
                !.subscription.status = subscription.status,
                !.subscription.currentPeriodEnd = periodEndOf(subscription),
                !.subscription.cancelAtPeriodEnd = cancelAtPeriodEndOf(subscription)]
        withPlan ==
            IF subscription.price # withFields.subscription.planId
            THEN [withFields EXCEPT !.subscription.planId = subscription.price]
            ELSE withFields
    IN  IF subscription.status = "active"
        THEN [withPlan EXCEPT !.roles = push(withPlan.roles, "premium")]
        ELSE IF subscription.status \in {"canceled", "unpaid", "past_due"}
             THEN [withPlan EXCEPT !.roles = filterOut(withPlan.roles, "premium")]
             ELSE withPlan

\* handleSubscriptionUpdated with current_period_end stored as it comes, in
\* seconds, without the conversion to milliseconds of line 360.
updatedDocumentPeriodInSeconds(user, subscription) ==
    LET withFields ==
            [user EXCEPT
                !.subscription.status = subscription.status,
                !.subscription.currentPeriodEnd =
                    IF "current_period_end" \in subscription.omits
                    THEN InvalidDate
                    ELSE Date(subscription.current_period_end),
                !.subscription.cancelAtPeriodEnd = cancelAtPeriodEndOf(subscription)]
        withPlan ==
            IF subscription.price # withFields.subscription.planId
            THEN [withFields EXCEPT !.subscription.planId = subscription.price]
            ELSE withFields
    IN  IF subscription.status = "active"
        THEN IF ~includes(withPlan.roles, "premium")
             THEN [withPlan EXCEPT !.roles = push(withPlan.roles, "premium")]
             ELSE withPlan
        ELSE IF subscription.status \in {"canceled", "unpaid", "past_due"}
             THEN [withPlan EXCEPT !.roles = filterOut(withPlan.roles, "premium")]
             ELSE withPlan

\* The in-memory document after lines 358-377 of handleSubscriptionUpdated.
updatedDocument(user, subscription) ==
    LET withFields ==
            [user EXCEPT
                !.subscription.status = subscription.status,
                !.subscription.currentPeriodEnd = periodEndOf(subscription),
                !.subscription.cancelAtPeriodEnd = cancelAtPeriodEndOf(subscription)]
        withPlan ==
            IF subscription.price # withFields.subscription.planId
            THEN [withFields EXCEPT !.subscription.planId = subscription.price]
            ELSE withFields
    IN  IF subscription.status = "active"
        THEN IF ~includes(withPlan.roles, "premium")
             THEN [withPlan EXCEPT !.roles = push(withPlan.roles, "premium")]
             ELSE withPlan
        ELSE IF subscription.status \in {"canceled", "unpaid", "past_due"}
             THEN [withPlan EXCEPT !.roles = filterOut(withPlan.roles, "premium")]
             ELSE withPlan

handleSubscriptionUpdated(us, subscription, db) ==
    IF db = "down"
    THEN Outcome(us, "Error handling subscription update", "", NULL)
    ELSE LET u == findOneBySubscriptionId(us, subscription.id)
         IN  IF u = NULL
             THEN Outcome(us, "", "", NULL)
             ELSE saveAndTrack(us, u, us[u], updatedDocument(us[u], subscription),
                               "subscription_updated",
                               "Error handling subscription update")

\* The in-memory document after lines 407-411 of handleSubscriptionDeleted.
deletedDocument(user) ==
    [user EXCEPT
        !.subscription.status = "canceled",
        !.roles = filterOut(user.roles, "premium")]

handleSubscriptionDeleted(us, subscription, db) ==
    IF db = "down"
    THEN Outcome(us, "Error handling subscription deletion", "", NULL)
    ELSE LET u == findOneBySubscriptionId(us, subscription.id)
         IN  IF u = NULL
             THEN Outcome(us, "No user found with subscription ID", "", NULL)
             ELSE saveAndTrack(us, u, us[u], deletedDocument(us[u]),
                               "subscription_deleted",
                               "Error handling subscription deletion")

handleInvoicePaymentSucceeded(us, invoice, db) ==
    IF invoice.subscription = NULL
    THEN Outcome(us, "", "", NULL)
    ELSE IF db = "down"
    THEN Outcome(us, "Error handling invoice payment success", "", NULL)
    ELSE IF findOneBySubscriptionId(us, invoice.subscription) = NULL
    THEN Outcome(us, "No user found with subscription ID", "", NULL)
    ELSE Outcome(us, "", "subscription_payment_succeeded", NULL)

\* handleInvoicePaymentFailed storing status past_due on the account found.
handleInvoicePaymentFailedSetsPastDue(us, invoice, db) ==
    IF invoice.subscription = NULL
    THEN Outcome(us, "", "", NULL)
    ELSE IF db = "down"
    THEN Outcome(us, "Error handling invoice payment failure", "", NULL)
    ELSE LET u == findOneBySubscriptionId(us, invoice.subscription)
         IN  IF u = NULL
             THEN Outcome(us, "No user found with subscription ID", "", NULL)
             ELSE saveAndTrack(us, u, us[u],
                               [us[u] EXCEPT !.subscription.status = "past_due"],
                               "subscription_payment_failed",
                               "Error handling invoice payment failure")

handleInvoicePaymentFailed(us, invoice, db) ==
    IF invoice.subscription = NULL
    THEN Outcome(us, "", "", NULL)
    ELSE IF db = "down"
    THEN Outcome(us, "Error handling invoice payment failure", "", NULL)
    ELSE IF findOneBySubscriptionId(us, invoice.subscription) = NULL
    THEN Outcome(us, "No user found with subscription ID", "", NULL)
    ELSE Outcome(us, "", "subscription_payment_failed", NULL)

\* What stripe.getSubscription can answer: the provider's subscription, or
\* a thrown provider error.
ProviderSubscriptions ==
    [ok : {TRUE},
     status : {"active", "trialing", "paused"},
     current_period_end : PeriodEnds,
     cancel_at_period_end : BOOLEAN,
     price : PriceIds]

ProviderError ==
    [ok |-> FALSE, status |-> NULL, current_period_end |-> 0,
     cancel_at_period_end |-> FALSE, price |-> NULL]

\* The in-memory document after lines 318-330 of
\* handleCheckoutSessionCompleted.
checkoutDocument(user, subscriptionId, subscription) ==
    LET withSub ==
            [user EXCEPT !.subscription =
                [subscriptionId |-> subscriptionId,
                 planId |-> subscription.price,
                 status |-> subscription.status,
                 currentPeriodEnd |-> Date(subscription.current_period_end * 1000),
                 cancelAtPeriodEnd |-> subscription.cancel_at_period_end]]
    IN  IF ~includes(withSub.roles, "premium")
        THEN [withSub EXCEPT !.roles = push(withSub.roles, "premium")]
        ELSE withSub

handleCheckoutSessionCompleted(us, session, db, subscription) ==
    IF session.subscription = NULL
    THEN Outcome(us, "No subscription ID found in checkout session", "", NULL)
    ELSE IF ~subscription.ok \/ db = "down"
    THEN Outcome(us, "Error handling checkout session completion", "", NULL)
    ELSE LET u == findOneByCustomerId(us, session.customer)
         IN  IF u = NULL
             THEN Outcome(us, "No user found with Stripe customer ID", "", NULL)
             ELSE saveAndTrack(us, u, us[u],
                               checkoutDocument(us[u], session.subscription, subscription),
                               "subscription_created",
                               "Error handling checkout session completion")

\* The switch of handleStripeWebhook, lines 233-258.
dispatch(us, event, db, subscription) ==
    CASE event.type = "checkout.session.completed" ->
            handleCheckoutSessionCompleted(us, event, db, subscription)
      [] event.type \in {"customer.subscription.created",
                         "customer.subscription.updated"} ->
            handleSubscriptionUpdated(us, event, db)
      [] event.type = "customer.subscription.deleted" ->
            handleSubscriptionDeleted(us, event, db)
      [] event.type = "invoice.payment_succeeded" ->
            handleInvoicePaymentSucceeded(us, event, db)
      [] event.type = "invoice.payment_failed" ->
            handleInvoicePaymentFailed(us, event, db)
      [] OTHER -> Outcome(us, "Unhandled event type", "", NULL)

(* --------------------------- webhook endpoint --------------------------- *)

\* req.headers['stripe-signature'] when the header is absent.
Missing == [kind |-> "missing", event |-> NULL, key |-> NULL]

\* What a request leaves behind: the store, the HTTP status answered, the
\* logger.error message, the analytics event, the account saved and the
\* event that was dispatched (NULL when none was).
Reply(out, status, event) ==
    [users |-> out.users, response |-> status, log |-> out.log,
     tracked |-> out.tracked, saved |-> out.saved, event |-> event]

\* The event types the switch of handleStripeWebhook has a case for.
HandledTypes ==
    {"checkout.session.completed", "customer.subscription.created",
     "customer.subscription.updated", "customer.subscription.deleted",
     "invoice.payment_succeeded", "invoice.payment_failed"}

\* handleStripeWebhook with a default case that throws instead of logging:
\* the error lands in the catch of line 261 and the request is answered 400.
handleStripeWebhookDefaultThrows(us, req, db, subscription) ==
    IF req.signature = Missing
    THEN Reply(Outcome(us, "", "", NULL), 400, NULL)
    ELSE LET verified == constructEventFromPayload(req.signature, req.body)
         IN  IF ~verified.ok
             THEN Reply(Outcome(us, "Webhook error", "", NULL), 400, NULL)
             ELSE IF verified.event.type \notin HandledTypes
             THEN Reply(Outcome(us, "Webhook error", "", NULL), 400,
                        verified.event)
             ELSE Reply(dispatch(us, verified.event, db, subscription),
                        200, verified.event)

\* handleStripeWebhook, lines 223-265: db is what the store does when asked
\* (ok or down), subscription what stripe.getSubscription answers.
handleStripeWebhook(us, req, db, subscription) ==
    IF req.signature = Missing
    THEN Reply(Outcome(us, "", "", NULL), 400, NULL)
    ELSE LET verified == constructEventFromPayload(req.signature, req.body)
         IN  IF ~verified.ok
             THEN Reply(Outcome(us, "Webhook error", "", NULL), 400, NULL)
             ELSE Reply(dispatch(us, verified.event, db, subscription),
                        200, verified.event)

(* ----------------------------- user actions ----------------------------- *)

\* An error that is not an ApiError (a provider error, a store error, a
\* TypeError) reaches the error middleware through catchAsync and is
\* answered 500.

\* cancelSubscription, lines 175-216: stripeOk is whether
\* stripe.cancelSubscription returned or threw.
cancelledDocument(user, cancelImmediately) ==
    [user EXCEPT
        !.subscription.status = IF cancelImmediately THEN "canceled" ELSE "active",
        !.subscription.cancelAtPeriodEnd = ~cancelImmediately]

\* cancelSubscription with the record saved before the provider is called.
cancelSubscriptionSavesFirst(us, u, cancelImmediately, db, stripeOk) ==
    IF db = "down"
    THEN Reply(Outcome(us, "", "", NULL), 500, NULL)
    ELSE IF us[u].subscription.subscriptionId = NULL
    THEN Reply(Outcome(us, "", "", NULL), 400, NULL)
    ELSE LET doc == cancelledDocument(us[u], cancelImmediately)
             saved == [us EXCEPT ![u] = written(us[u], us[u], doc)]
         IN  IF ~stripeOk
             THEN Reply(Outcome(saved, "Error canceling Stripe subscription",
                                "", u),
                        500, NoEvent)
             ELSE Reply(Outcome(saved, "", "subscription_canceled", u),
                        200, NoEvent)

cancelSubscription(us, u, cancelImmediately, db, stripeOk) ==
    IF db = "down"
    THEN Reply(Outcome(us, "", "", NULL), 500, NULL)
    ELSE IF us[u].subscription.subscriptionId = NULL
    THEN Reply(Outcome(us, "", "", NULL), 400, NULL)
    ELSE IF ~stripeOk
    THEN Reply(Outcome(us, "Error canceling Stripe subscription", "", NULL),
               500, NULL)
    ELSE LET doc == cancelledDocument(us[u], cancelImmediately)
         IN  Reply(Outcome([us EXCEPT ![u] = written(us[u], us[u], doc)],
                           "", "subscription_canceled", u),
                   200, NoEvent)

\* config.stripe.monthlyPlanId and config.stripe.yearlyPlanId: config.js
\* defines secretKey, webhookSecret and plans under stripe and neither of
\* these keys, so both read as undefined.
monthlyPlanId == NULL

yearlyPlanId == NULL

\* The plan ids a checkout request can carry (the route's validation makes
\* planId a required string): the price ids of the catalog.
CheckoutPlanIds == PriceIds

\* createCheckoutSession, lines 61-121. stripe.createCustomer is not among
\* the exports of config/stripe.js, so the call of line 85 throws a
\* TypeError; stripeOk is whether stripe.createCheckoutSession returned.
createCheckoutSession(us, u, planId, db, stripeOk) ==
    IF planId # monthlyPlanId /\ planId # yearlyPlanId
    THEN Reply(Outcome(us, "", "", NULL), 400, NULL)
    ELSE IF db = "down"
    THEN Reply(Outcome(us, "", "", NULL), 500, NULL)
    ELSE IF us[u].subscription.status = "active"
    THEN Reply(Outcome(us, "", "", NULL), 400, NULL)
    ELSE IF us[u].stripeCustomerId = NULL
    THEN Reply(Outcome(us, "", "", NULL), 500, NULL)
    ELSE IF ~stripeOk
    THEN Reply(Outcome(us, "Error creating checkout session", "", NULL),
               500, NULL)
    ELSE Reply(Outcome(us, "", "subscription_checkout_initiated", NULL),
               200, NULL)

\* The in-memory document after line 512 of reactivateSubscription.
reactivatedDocument(user) ==
    [user EXCEPT !.subscription.cancelAtPeriodEnd = FALSE]

\* reactivateSubscription, lines 489-528. Line 509 calls
\* stripe.subscriptions.update on the exports of config/stripe.js, which
\* have the client under the key stripe and no key subscriptions: the call
\* throws a TypeError before the provider is reached, and lines 511-527 do
\* not run.
reactivateSubscription(us, u, db) ==
    IF db = "down"
    THEN Reply(Outcome(us, "", "", NULL), 500, NULL)
    ELSE IF us[u].subscription.subscriptionId = NULL
    THEN Reply(Outcome(us, "", "", NULL), 400, NULL)
    ELSE IF ~us[u].subscription.cancelAtPeriodEnd
    THEN Reply(Outcome(us, "", "", NULL), 400, NULL)
    ELSE Reply(Outcome(us, "", "", NULL), 500, NULL)

\* The in-memory document after line 718 of updateSubscription.
planChangedDocument(user, newPlanId) ==
    [user EXCEPT !.subscription.planId = newPlanId]

\* updateSubscription, lines 682-736: stripeOk is whether
\* stripe.updateSubscription returned. The plan check of line 691 compares
\* with the two plan ids config.js does not define.
updateSubscription(us, u, newPlanId, db, stripeOk) ==
    IF newPlanId # monthlyPlanId /\ newPlanId # yearlyPlanId
    THEN Reply(Outcome(us, "", "", NULL), 400, NULL)
    ELSE IF db = "down"
    THEN Reply(Outcome(us, "", "", NULL), 500, NULL)
    ELSE IF us[u].subscription.subscriptionId = NULL
    THEN Reply(Outcome(us, "", "", NULL), 400, NULL)
    ELSE IF us[u].subscription.planId = newPlanId
    THEN Reply(Outcome(us, "", "", NULL), 400, NULL)
    ELSE IF ~stripeOk
    THEN Reply(Outcome(us, "Error updating Stripe subscription", "", NULL),
               500, NULL)
    ELSE LET doc == planChangedDocument(us[u], newPlanId)
         IN  IF validates(doc)
             THEN Reply(Outcome([us EXCEPT ![u] = written(us[u], us[u], doc)],
                                "", "subscription_plan_changed", u),
                        200, NoEvent)
             ELSE Reply(Outcome(us, "", "", NULL), 500, NULL)

\* What stripe.getSubscription can answer to getUserSubscription: a
\* subscription in some status, or a thrown provider error.
SubscriptionDetails ==
    {d \in ProviderSubscriptions :
        /\ d.current_period_end = 1
        /\ ~d.cancel_at_period_end
        /\ d.price = "pro"}
      \cup {ProviderError}

\* The in-memory document after line 145 of getUserSubscription.
syncedDocument(user, subscriptionDetails) ==
    [user EXCEPT !.subscription.status = subscriptionDetails.status]

\* getUserSubscription, lines 128-168: for a user with a customer id and a
\* subscription id the provider is asked, and a status that differs from
\* the stored one is saved; an error of the provider or of the save is
\* caught and logged, and the request is answered 200 either way.
getUserSubscription(us, u, db, subscriptionDetails) ==
    IF db = "down"
    THEN Reply(Outcome(us, "", "", NULL), 500, NULL)
    ELSE IF us[u].stripeCustomerId = NULL
              \/ us[u].subscription.subscriptionId = NULL
    THEN Reply(Outcome(us, "", "", NULL), 200, NULL)
    ELSE IF ~subscriptionDetails.ok
    THEN Reply(Outcome(us, "Error fetching subscription from Stripe", "", NULL),
               200, NULL)
    ELSE IF subscriptionDetails.status = us[u].subscription.status
    THEN Reply(Outcome(us, "", "", NULL), 200, NULL)
    ELSE LET doc == syncedDocument(us[u], subscriptionDetails)
         IN  IF validates(doc)
             THEN Reply(Outcome([us EXCEPT ![u] = written(us[u], us[u], doc)],
                                "", "", u),
                        200, NoEvent)
             ELSE Reply(Outcome(us, "Error fetching subscription from Stripe",
                                "", NULL),
                        200, NULL)

(* ------------------------------ analytics ------------------------------- *)

\* analyticsService.trackEvent with a catch that throws the error on
\* instead of returning.
trackEventRethrows(event, analyticsOk) ==
    [stored |-> IF analyticsOk THEN event ELSE "", threw |-> ~analyticsOk]

\* analyticsService.trackEvent(event, data): analyticsOk is whether
\* analytics.save() and the counter update resolve. When they reject, the
\* catch logs to the console and returns, so nothing is stored and nothing
\* is thrown.
trackEvent(event, analyticsOk) ==
    [stored |-> IF analyticsOk THEN event ELSE "", threw |-> FALSE]

\* A webhook request whose handler has reached its trackEvent call: a throw
\* there would land in the handler's own catch, after the save.
webhookTracked(r, analyticsOk) ==
    IF r.tracked = ""
    THEN r
    ELSE LET t == trackEvent(r.tracked, analyticsOk)
         IN  IF t.threw
             THEN [r EXCEPT !.tracked = "", !.log = "Error handling webhook event"]
             ELSE [r EXCEPT !.tracked = t.stored]

\* A user's action that has reached its trackEvent call: a throw there
\* would reach the error middleware, after the save, and be answered 500.
actionTracked(r, analyticsOk) ==
    IF r.tracked = ""
    THEN r
    ELSE LET t == trackEvent(r.tracked, analyticsOk)
         IN  IF t.threw
             THEN [r EXCEPT !.tracked = "", !.response = 500]
             ELSE [r EXCEPT !.tracked = t.stored]

\* What analytics can do during a request: it is asked only by a request
\* that tracks an event.
AnalyticsAnswers(r) == IF r.tracked = "" THEN {TRUE} ELSE BOOLEAN

(* ------------------------------- state ---------------------------------- *)

VARIABLES
    users,      \* the stored user documents
    response,   \* the HTTP status of the last request answered (0: none yet)
    log,        \* the logger.error message of the last request ("" if none)
    tracked,    \* the analytics event of the last request ("" if none)
    lastAppliedEventTimestamp,
                \* history: per account, the largest event.created among the
                \* events whose handler saved the account's document
    procs       \* the requests in flight when handlers interleave at their
                \* awaits: per request slot, where the handler stands

vars == <<users, response, log, tracked, lastAppliedEventTimestamp, procs>>

\* The request slots of the interleaved specification.
Procs == {"p1", "p2"}

\* A slot no request has used yet. pc is the await the handler stands at,
\* loaded the document its findOne/findById returned, applied whether its
\* save has written, answered its HTTP status, overlapped the slots that
\* were in flight when its request arrived, customerId the customer
\* createCheckoutSession holds (line 81), planId the plan it was asked for,
\* providerTime the provider's time of the change the request made there
\* (0: it made none).
Idle ==
    [pc |-> "idle", kind |-> "none", event |-> NoEvent, user |-> NULL,
     loaded |-> NewUser, cancelImmediately |-> FALSE, applied |-> FALSE,
     answered |-> 0, overlapped |-> {}, customerId |-> NULL,
     planId |-> NULL, providerTime |-> 0]

\* The second account: a subscriber whose ids no request carries.
Bystander ==
    [stripeCustomerId |-> "c2",
     roles |-> <<"user", "premium">>,
     subscription |->
        [subscriptionId |-> "s2",
         planId |-> "basic",
         status |-> "active",
         currentPeriodEnd |-> Date(1000),
         cancelAtPeriodEnd |-> FALSE]]

\* Documents u1 can start with: a newly created user, a user with a provider
\* customer, and a subscriber.
InitialDocuments ==
    {NewUser,
     [NewUser EXCEPT !.stripeCustomerId = "c1"],
     [stripeCustomerId |-> "c1",
      roles |-> <<"user", "premium">>,
      subscription |->
         [subscriptionId |-> "s1",
          planId |-> "pro",
          status |-> "active",
          currentPeriodEnd |-> Date(1000),
          cancelAtPeriodEnd |-> FALSE]]}

Init ==
    /\ users \in {[u \in Users |-> IF u = "u1" THEN d ELSE Bystander] :
                    d \in InitialDocuments}
    /\ response = 0
    /\ log = ""
    /\ tracked = ""
    /\ lastAppliedEventTimestamp = [u \in Users |-> 0]
    /\ procs = [p \in Procs |-> Idle]

(* ------------------------------ requests -------------------------------- *)

\* A payload that differs from the one the signature was made over.
Tampered(e) == [e EXCEPT !.id = "tampered"]

\* The provider's own request for an event: the raw JSON as body and the
\* signature of it, made with the webhook secret, as header.
ProviderRequest(e) == [body |-> Json(e), signature |-> Sig(webhookSecret, e)]

\* The same two texts, each in the other's place: the JSON in the header
\* and the signature of it as body.
SwappedRequest(e) == [body |-> Sig(webhookSecret, e), signature |-> Json(e)]

\* Requests the verifier must refuse: signed with another key, changed
\* after signing, or without the header.
BadRequestsOf(e) ==
    {[body |-> Json(e), signature |-> Sig("whsec_other", e)],
     [body |-> Json(Tampered(e)), signature |-> Sig(webhookSecret, e)],
     [body |-> Json(e), signature |-> Missing]}

\* Every request over the events of the model.
AllRequests ==
    UNION {{ProviderRequest(e), SwappedRequest(e)} \cup BadRequestsOf(e) :
             e \in Events}

\* The events whose bad requests are delivered: one per type and id.
ProbeEvents ==
    {e \in Events :
        /\ e.created = 1
        /\ e.current_period_end <= 1
        /\ ~e.cancel_at_period_end
        /\ e.status \in {NULL, "active", "canceled"}
        /\ e.price \in {NULL, "pro"}}

\* The webhook requests delivered: for every event the provider's request
\* and the swapped one, and the bad requests of the probe events.
Requests ==
    {ProviderRequest(e) : e \in Events}
        \cup {SwappedRequest(e) : e \in Events}
        \cup UNION {BadRequestsOf(e) : e \in ProbeEvents}

StoreAnswers == {"ok", "down"}

\* What the collaborators can answer while a request is handled: the store
\* is up or down, and stripe.getSubscription, which only a
\* checkout.session.completed event calls, answers a subscription or throws.
Answers(req) ==
    IF req.signature.kind = "json"
           /\ req.signature.event.type = "checkout.session.completed"
    THEN {<<"ok", s>> : s \in ProviderSubscriptions \cup {ProviderError}}
             \cup {<<"down", ProviderError>>}
    ELSE IF req.signature.kind = "json"
    THEN StoreAnswers \X {ProviderError}
    ELSE {<<"ok", ProviderError>>}

\* The accounts whose owner sends requests.
Actors == {"u1"}

(* ------------------------------ actions --------------------------------- *)

Max(a, b) == IF a >= b THEN a ELSE b

\* The state after a request with reply r.
Answered(r) ==
    /\ users' = r.users
    /\ response' = r.response
    /\ log' = r.log
    /\ tracked' = r.tracked
    /\ lastAppliedEventTimestamp' =
          IF r.saved # NULL /\ r.response = 200
          THEN [lastAppliedEventTimestamp EXCEPT
                   ![r.saved] = Max(@, r.event.created)]
          ELSE lastAppliedEventTimestamp
    /\ UNCHANGED procs

StripeWebhook ==
    \E req \in Requests :
        \E a \in Answers(req) :
            LET r == handleStripeWebhook(users, req, a[1], a[2])
            IN  \E analyticsOk \in AnalyticsAnswers(r) :
                    Answered(webhookTracked(r, analyticsOk))

CancelSubscription ==
    \E u \in Actors, cancelImmediately \in BOOLEAN,
       db \in StoreAnswers, stripeOk \in BOOLEAN :
        LET r == cancelSubscription(users, u, cancelImmediately, db, stripeOk)
        IN  \E analyticsOk \in AnalyticsAnswers(r) :
                Answered(actionTracked(r, analyticsOk))

CreateCheckoutSession ==
    \E u \in Actors, planId \in CheckoutPlanIds,
       db \in StoreAnswers, stripeOk \in BOOLEAN :
        LET r == createCheckoutSession(users, u, planId, db, stripeOk)
        IN  \E analyticsOk \in AnalyticsAnswers(r) :
                Answered(actionTracked(r, analyticsOk))

GetUserSubscription ==
    \E u \in Actors, db \in StoreAnswers, d \in SubscriptionDetails :
        Answered(getUserSubscription(users, u, db, d))

ReactivateSubscription ==
    \E u \in Actors, db \in StoreAnswers :
        Answered(reactivateSubscription(users, u, db))

UpdateSubscription ==
    \E u \in Actors, newPlanId \in CheckoutPlanIds,
       db \in StoreAnswers, stripeOk \in BOOLEAN :
        LET r == updateSubscription(users, u, newPlanId, db, stripeOk)
        IN  \E analyticsOk \in AnalyticsAnswers(r) :
                Answered(actionTracked(r, analyticsOk))

Next ==
    \/ StripeWebhook
    \/ CancelSubscription
    \/ CreateCheckoutSession
    \/ GetUserSubscription
    \/ ReactivateSubscription
    \/ UpdateSubscription

Spec == Init /\ [][Next]_vars

(* ------------------- handlers interleaved at their awaits --------------- *)

\* The events delivered while handlers interleave: subscription updates of
\* u1's subscription whose status and price the schema accepts.
ConcurrentEvents ==
    {e \in SubscriptionEvents :
        /\ e.type = "customer.subscription.updated"
        /\ e.id = "s1"
        /\ e.status \in {"active", "past_due", "canceled"}
        /\ e.price = "pro"
        /\ e.current_period_end = 1
        /\ e.cancel_at_period_end = FALSE}

InFlight == {q \in Procs : procs[q].pc \notin {"idle", "done"}}

\* handleStripeWebhook up to the await of User.findOne in
\* handleSubscriptionUpdated (lines 224-353): the request is verified and
\* dispatched, and the handler holds the document it found.
WebhookFind(p) ==
    /\ procs[p].pc = "idle"
    /\ \E e \in ConcurrentEvents :
          LET req == [body |-> Sig(webhookSecret, e), signature |-> Json(e)]
              verified == constructEventFromPayload(req.signature, req.body)
              u == findOneBySubscriptionId(users, verified.event.id)
          IN  /\ verified.ok
              /\ procs' =
                    [procs EXCEPT ![p] =
                        IF u = NULL
                        THEN [Idle EXCEPT !.pc = "done", !.kind = "webhook",
                                          !.event = verified.event,
                                          !.answered = 200,
                                          !.overlapped = InFlight]
                        ELSE [Idle EXCEPT !.pc = "found", !.kind = "webhook",
                                          !.event = verified.event,
                                          !.user = u, !.loaded = users[u],
                                          !.overlapped = InFlight]]
    /\ UNCHANGED <<users, response, log, tracked, lastAppliedEventTimestamp>>

\* handleSubscriptionUpdated from line 358 to the end of the request: the
\* document found earlier is changed in memory and saved.
WebhookSave(p) ==
    /\ procs[p].pc = "found"
    /\ LET u == procs[p].user
           doc == updatedDocument(procs[p].loaded, procs[p].event)
       IN  IF validates(doc)
           THEN /\ users' = [users EXCEPT
                                ![u] = written(users[u], procs[p].loaded, doc)]
                /\ lastAppliedEventTimestamp' =
                      [lastAppliedEventTimestamp EXCEPT
                          ![u] = Max(@, procs[p].event.created)]
                /\ procs' = [procs EXCEPT ![p].pc = "done",
                                          ![p].applied = TRUE,
                                          ![p].answered = 200]
           ELSE /\ procs' = [procs EXCEPT ![p].pc = "done",
                                          ![p].answered = 200]
                /\ UNCHANGED <<users, lastAppliedEventTimestamp>>
    /\ UNCHANGED <<response, log, tracked>>

\* cancelSubscription up to the await of stripe.cancelSubscription (lines
\* 176-191): the user's document is loaded and checked.
CancelFind(p) ==
    /\ procs[p].pc = "idle"
    /\ \E u \in Actors, cancelImmediately \in BOOLEAN :
          procs' =
             [procs EXCEPT ![p] =
                 IF users[u].subscription.subscriptionId = NULL
                 THEN [Idle EXCEPT !.pc = "done", !.kind = "cancel",
                                   !.user = u, !.answered = 400,
                                   !.overlapped = InFlight]
                 ELSE [Idle EXCEPT !.pc = "loaded", !.kind = "cancel",
                                   !.user = u, !.loaded = users[u],
                                   !.cancelImmediately = cancelImmediately,
                                   !.overlapped = InFlight]]
    /\ UNCHANGED <<users, response, log, tracked, lastAppliedEventTimestamp>>

\* The provider's times at which a call made now can take effect: not
\* before the events already received were created.
ProviderTimesNow ==
    {t \in Times :
        \A q \in Procs :
            procs[q].kind = "webhook" => procs[q].event.created <= t}

\* await stripe.cancelSubscription(...), line 192: it returns, the provider
\* having made the change at its time t, or throws.
CancelStripe(p) ==
    /\ procs[p].pc = "loaded"
    /\ \E stripeOk \in BOOLEAN, t \in ProviderTimesNow :
          procs' = IF stripeOk
                   THEN [procs EXCEPT ![p].pc = "called",
                                      ![p].providerTime = t]
                   ELSE [procs EXCEPT ![p].pc = "done",
                                      ![p].answered = 500]
    /\ UNCHANGED <<users, response, log, tracked, lastAppliedEventTimestamp>>

\* cancelSubscription from line 194 to the end of the request.
CancelSave(p) ==
    /\ procs[p].pc = "called"
    /\ LET u == procs[p].user
           doc == cancelledDocument(procs[p].loaded, procs[p].cancelImmediately)
       IN  users' = [users EXCEPT ![u] = written(users[u], procs[p].loaded, doc)]
    /\ procs' = [procs EXCEPT ![p].pc = "done", ![p].applied = TRUE,
                              ![p].answered = 200]
    /\ UNCHANGED <<response, log, tracked, lastAppliedEventTimestamp>>

\* createCheckoutSession as one step: with the plan check of line 66
\* throwing for every plan id, the request is answered before its first
\* await.
CheckoutSession(p) ==
    /\ procs[p].pc = "idle"
    /\ \E u \in Actors, planId \in CheckoutPlanIds :
          LET r == createCheckoutSession(users, u, planId, "ok", TRUE)
          IN  /\ users' = r.users
              /\ procs' = [procs EXCEPT ![p] =
                              [Idle EXCEPT !.pc = "done", !.kind = "checkout",
                                           !.user = u, !.planId = planId,
                                           !.answered = r.response,
                                           !.overlapped = InFlight]]
    /\ UNCHANGED <<response, log, tracked, lastAppliedEventTimestamp>>

NextConcurrent ==
    \E p \in Procs :
        \/ WebhookFind(p)
        \/ WebhookSave(p)
        \/ CancelFind(p)
        \/ CancelStripe(p)
        \/ CancelSave(p)
        \/ CheckoutSession(p)

SpecConcurrent == Init /\ [][NextConcurrent]_vars

(* ------------------------------- claims --------------------------------- *)

\* The answers of the collaborators with the store up.
AnswersStoreUp(req) == {a \in Answers(req) : a[1] = "ok"}

delivered(us, e) ==
    handleStripeWebhook(us, SwappedRequest(e), "ok", ProviderError).users

\* The events that describe a subscription of an account.
AccountEvents == SubscriptionEvents \cup DeletedEvents

Writers == {p \in Procs : procs[p].kind = "webhook" /\ procs[p].user # NULL}

AllDone == \A p \in Procs : procs[p].pc = "done"

C6_ValidSignatureAccepted ==
    \A e \in Events :
        \A a \in AnswersStoreUp(ProviderRequest(e)) :
            LET r == handleStripeWebhook(users, ProviderRequest(e), a[1], a[2])
            IN  r.response = 200 /\ r.event = e

\* The messages the handlers' catch blocks log when processing throws.
ProcessingErrors ==
    {"Error handling subscription update",
     "Error handling subscription deletion",
     "Error handling invoice payment success",
     "Error handling invoice payment failure",
     "Error handling checkout session completion"}

C9_CreatedOnFreshAccount ==
    \A u \in Users :
        \A e \in SubscriptionEvents :
            (/\ e.type = "customer.subscription.created"
             /\ users[u].subscription.subscriptionId = NULL
             /\ users[u].stripeCustomerId = e.customer
             /\ e.status \in StatusEnum
             /\ e.price \in PlanEnum)
                => LET after == delivered(users, e)[u].subscription
                   IN  /\ after.subscriptionId = e.id
                       /\ after.status = e.status
                       /\ after.currentPeriodEnd = Date(e.current_period_end * 1000)

C12_LiveStatusHasSubscriptionId ==
    \A u \in Users :
        users[u].subscription.status \in {"active", "trialing", "past_due"}
            => users[u].subscription.subscriptionId # NULL

\* The checkout requests for account u that have been answered, and the
\* provider customers they created.
CheckoutsDone(u) ==
    {p \in Procs :
        procs[p].kind = "checkout" /\ procs[p].pc = "done" /\ procs[p].user = u}

CustomersCreated(u) == {procs[p].customerId : p \in CheckoutsDone(u)} \ {NULL}

CancelVersusWebhook(c, w) ==
    /\ procs[c].kind = "cancel" /\ procs[c].applied
    /\ procs[w].kind = "webhook" /\ procs[w].applied
    /\ procs[c].user = procs[w].user
    /\ procs[c].providerTime # procs[w].event.created

CancelAtPeriodEndApplied(u) ==
    /\ response = 200
    /\ tracked = "subscription_canceled"
    /\ users[u].subscription.cancelAtPeriodEnd

\* The subscription.updated events that describe the change the record of
\* account u already shows: cancel_at_period_end true and the record's
\* subscription, status, period end and plan.
SameChangeEvents(u) ==
    {e \in SubscriptionEvents :
        /\ e.type = "customer.subscription.updated"
        /\ e.id = users[u].subscription.subscriptionId
        /\ e.cancel_at_period_end
        /\ e.status = users[u].subscription.status
        /\ Date(e.current_period_end * 1000) = users[u].subscription.currentPeriodEnd
        /\ e.price = users[u].subscription.planId}

RecordStatuses ==
    {"none", "trialing", "active", "past_due", "unpaid", "canceled",
     "incomplete"}

Emitted(r) == {r.log, r.tracked} \ {""}

\* The signal that tells the caches to drop their views of an account.
CacheInvalidation == "cache_invalidated"

C21_AnalyticsFailureIsIsolated ==
    /\ \A e \in Events :
          \A a \in AnswersStoreUp(SwappedRequest(e)) :
              LET r == handleStripeWebhook(users, SwappedRequest(e), a[1], a[2])
                  failed == webhookTracked(r, FALSE)
                  worked == webhookTracked(r, TRUE)
              IN  /\ failed.users = worked.users
                  /\ failed.response = worked.response
    /\ \A u \in Actors, cancelImmediately \in BOOLEAN, stripeOk \in BOOLEAN :
          LET r == cancelSubscription(users, u, cancelImmediately, "ok", stripeOk)
              failed == actionTracked(r, FALSE)
              worked == actionTracked(r, TRUE)
          IN  /\ failed.users = worked.users
              /\ failed.response = worked.response

\* C21 witness: a subscription update has been handled, and a user's
\* cancel in this state saves the record and is answered 200 while
\* analytics stores no event.
C21_Witness ==
    /\ response = 200
    /\ tracked = "subscription_updated"
    /\ \E cancelImmediately \in BOOLEAN :
          LET r == cancelSubscription(users, "u1", cancelImmediately, "ok", TRUE)
              failed == actionTracked(r, FALSE)
          IN  /\ r.saved = "u1"
              /\ failed.users # users
              /\ failed.response = 200
              /\ failed.tracked = ""

SaveConflicts(p) ==
    /\ procs[p].kind = "webhook"
    /\ procs[p].pc = "found"
    /\ procs[p].loaded # users[procs[p].user]

BoundAccounts(e) ==
    {u \in Users :
        \/ /\ e.type \in {"customer.subscription.created",
                           "customer.subscription.updated",
                           "customer.subscription.deleted"}
           /\ users[u].subscription.subscriptionId = e.id
        \/ /\ e.type = "checkout.session.completed"
           /\ users[u].stripeCustomerId = e.customer}

C28_CheckoutRefusedOnlyWhenSubscribed ==
    \A u \in Actors :
        \A planId \in CheckoutPlanIds :
            LET r == createCheckoutSession(users, u, planId, "ok", TRUE)
                subscribed ==
                    /\ users[u].subscription.subscriptionId # NULL
                    /\ users[u].subscription.status = "active"
            IN  /\ (r.response = 400) <=> subscribed
                /\ r.response = 400 => r.users = users

InvoiceTypes == {"invoice.payment_succeeded", "invoice.payment_failed"}

SubscriptionTypes ==
    {"customer.subscription.created", "customer.subscription.updated",
     "customer.subscription.deleted"}

\* The accounts whose stored status differs between two collections.
StatusChanged(before, after) ==
    {u \in Users : after[u].subscription.status # before[u].subscription.status}

\* The delivery of an invoice event writes no document, whatever the store
\* and the provider answer.
InvoiceEventsWriteNothing ==
    \A e \in Events :
        e.type \in InvoiceTypes
            => \A a \in Answers(SwappedRequest(e)) :
                   LET r == handleStripeWebhook(users, SwappedRequest(e), a[1], a[2])
                   IN  r.users = users /\ r.saved = NULL

====
